---- MODULE Spec2Model ----
(***************************************************************************)
(* Model of src/main.py: the Seequent Evo console explorer.                *)
(*                                                                         *)
(*   - paginate (lines 28-58): the generic offset/limit async generator,   *)
(*     one action per step between its suspension points;                  *)
(*   - the listing handlers get_organizations / get_workspace_page /       *)
(*     get_files / get_objects (lines 79-113);                             *)
(*   - main (lines 136-186): argument parsing, validation and dispatch.    *)
(*                                                                         *)
(* Two specifications share the paginate actions:                          *)
(*   SpecPaginate  paginate called as a library function with any limit,   *)
(*                 any fixed keyword arguments and any fetch function;     *)
(*   Spec          the command-line program, whose handlers call paginate  *)
(*                 with limit 50 and no keyword arguments.                 *)
(* FairPaginate is SpecPaginate with the fairness of a caller that keeps   *)
(* iterating and a fetch function whose calls all complete.                *)
(***************************************************************************)
EXTENDS Integers, Sequences, FiniteSets, TLC

VARIABLES
    \* ---- paginate's locals and its position
    pc,         \* "idle" | "loop" | "await" | "yield" | "resume" | "done" | "error"
    limit,      \* parameter limit
    kwargs,     \* parameter **kwargs, a function from keyword names to values
    offset,     \* local offset
    total,      \* local total: None or Some(t)
    \* ---- what crosses paginate's boundary, in order
    calls,      \* page_args of every api_func call of this run
    pages,      \* the Page every completed api_func call returned
    thrown,     \* the errors api_func raised in this run
    yielded,    \* the batches paginate yielded
    raised,     \* the error paginate's caller sees: None or Some(e)
    \* ---- the caller of paginate
    result,     \* the list the async-for loop extends
    runs,       \* number of paginate(...) calls made so far
    \* ---- the command-line program
    argv,       \* the parsed command line
    mainpc,     \* position in main
    stage,      \* which of the four dispatch ifs main is at (1..4), 5 = past them
    logins,     \* number of login attempts
    connector,  \* "none" | "constructed" | "open" | "closed"
    printed,    \* the tables printed, in order: <<mode, list>>
    exitCode    \* None or Some(status)

pvars == <<pc, limit, kwargs, offset, total, calls, pages, thrown, yielded, raised>>
cvars == <<result, runs>>
mvars == <<argv, mainpc, stage, logins, connector, printed, exitCode>>
vars  == <<pc, limit, kwargs, offset, total, calls, pages, thrown, yielded, raised,
           result, runs, argv, mainpc, stage, logins, connector, printed, exitCode>>

-----------------------------------------------------------------------------
(* Bounds of the model.                                                    *)

\* largest total an arbitrary fetch function reports
MaxTotal == 3
\* longest page an arbitrary fetch function returns
MaxPageLen == 2
\* an arbitrary fetch function's page starts after 0..MaxSkip items of the
\* service's collection
MaxSkip == 1
\* page sizes tried by a library caller, besides the default
MaxLimit == 2
\* paginate(...) calls a library caller makes one after the other
MaxRuns == 2

-----------------------------------------------------------------------------
(* Values.                                                                 *)

\* Python's None and a present value
None == <<>>
Some(x) == <<x>>
Get(o) == o[1]

\* def paginate(api_func, limit=50, **kwargs)
DefaultLimit == 50

Min(a, b) == IF a < b THEN a ELSE b
Max(a, b) == IF a > b THEN a ELSE b

\* list concatenation of a sequence of lists, in order
RECURSIVE Flatten(_)
Flatten(ss) == IF ss = <<>> THEN <<>> ELSE Head(ss) \o Flatten(Tail(ss))

\* the sequences over S of length 0..n
SeqsUpTo(S, n) == UNION {[1..k -> S] : k \in 0..n}

\* the items <<a, a+1, ..., b>>
Range(a, b) == [i \in 1..Max(0, b - a + 1) |-> a + i - 1]

\* The keyword arguments a caller may fix. limit is a named parameter of
\* paginate, so **kwargs never holds it; any other name, offset included, can
\* be passed.
NoKwargs == [k \in {} |-> 0]
KwargsSet == {NoKwargs, [k \in {"offset"} |-> 1], [k \in {"filter"} |-> 7]}

Limits == (1..MaxLimit) \cup {DefaultLimit}

\* dict.update: the entries of extra override those of base
Update(base, extra) ==
    [k \in DOMAIN base \cup DOMAIN extra |->
        IF k \in DOMAIN extra THEN extra[k] ELSE base[k]]

\* page_args = {"limit": limit, "offset": offset}; page_args.update(kwargs)
PageArgs(l, o, kw) == Update([x \in {"limit", "offset"} |-> IF x = "limit" THEN l ELSE o], kw)

\* What api_func may return.  A Page carries .total and .items().  The items
\* of the service's collection are 1, 2, 3, ...
\* An arbitrary fetch function returns any short slice of the collection,
\* whatever the request asked for: two pages may overlap, repeat or come out
\* of order.
ArbitraryItems == {Range(a + 1, a + n) : a \in 0..MaxSkip, n \in 0..MaxPageLen}

\* Its first page reports any total; a later page reports the same total
\* again, or a smaller or a larger one.
ArbitraryPages(t) ==
    [total : IF t = None THEN 0..MaxTotal ELSE {0, Get(t), MaxTotal},
     items : ArbitraryItems]

\* A consistent service holding the items 1..t: it returns the slice the
\* request asks for and reports t.
HonestPage(t, args) ==
    [total |-> t,
     items |-> Range(args["offset"] + 1, Min(args["offset"] + args["limit"], t))]

HonestTotals == (0..MaxTotal) \cup {120}

Errors == {"E1", "E2"}

-----------------------------------------------------------------------------
(* paginate, lines 28-58.                                                  *)

\* a loop test that gives up one item early
Continue_OneShort(o, t) == t = None \/ o + 1 < Get(t)

\* line 43: while total is None or offset < total
Continue(o, t) == t = None \/ o < Get(t)

\* total re-read from every response
CaptureTotal_Reread(t, page) == Some(page.total)

\* total never captured
CaptureTotal_Never(t, page) == t

\* lines 50-51: if total is None: total = page.total
CaptureTotal(t, page) == IF t = None THEN Some(page.total) ELSE t

\* offset left where it was
Advance_Stuck(o, items) == o

\* line 58: offset += len(items)
Advance(o, items) == o + Len(items)

\* The pages api_func may answer the call args with.  Arbitrary fetch functions
\* report totals up to MaxTotal; a run whose captured total is larger is served
\* by the consistent service only, which keeps the run short.
Responses(args) ==
    IF total = None
    THEN ArbitraryPages(total) \cup {HonestPage(t, args) : t \in HonestTotals}
    ELSE IF Get(total) > MaxTotal
         THEN {HonestPage(Get(total), args)}
         ELSE ArbitraryPages(total) \cup {HonestPage(Get(total), args)}

\* lines 28, 40-41: a call paginate(api_func, limit=l, **kw) and the start of
\* its body: a fresh generator with its own offset and total
PaginateStart(l, kw) ==
    /\ pc' = "loop"
    /\ limit' = l
    /\ kwargs' = kw
    /\ offset' = 0
    /\ total' = None
    /\ calls' = <<>>
    /\ pages' = <<>>
    /\ thrown' = <<>>
    /\ yielded' = <<>>
    /\ raised' = None
    /\ runs' = runs + 1

\* lines 43-48: the loop test; when it passes, page_args is built and
\* api_func(**page_args) is called; when it fails the generator is exhausted
LoopTest ==
    /\ pc = "loop"
    /\ IF Continue(offset, total)
       THEN /\ calls' = Append(calls, PageArgs(limit, offset, kwargs))
            /\ pc' = "await"
       ELSE /\ calls' = calls
            /\ pc' = "done"
    /\ UNCHANGED <<limit, kwargs, offset, total, pages, thrown, yielded, raised>>
    /\ UNCHANGED cvars
    /\ UNCHANGED mvars

\* an empty page handled like any other: no break
FetchReturn_NoBreak(page) ==
    /\ pc = "await"
    /\ pages' = Append(pages, page)
    /\ total' = CaptureTotal(total, page)
    /\ pc' = "yield"
    /\ yielded' = Append(yielded, page.items)
    /\ UNCHANGED <<limit, kwargs, offset, calls, thrown, raised>>
    /\ UNCHANGED cvars
    /\ UNCHANGED mvars

\* lines 48-57: the awaited call returns page; total is captured on the first
\* response; an empty page breaks out of the loop, any other page is yielded
FetchReturn(page) ==
    /\ pc = "await"
    /\ pages' = Append(pages, page)
    /\ total' = CaptureTotal(total, page)
    /\ IF page.items = <<>>
       THEN /\ pc' = "done"
            /\ yielded' = yielded
       ELSE /\ pc' = "yield"
            /\ yielded' = Append(yielded, page.items)
    /\ UNCHANGED <<limit, kwargs, offset, calls, thrown, raised>>
    /\ UNCHANGED cvars
    /\ UNCHANGED mvars

\* the error swallowed and the call tried again
FetchRaise_Retry(e) ==
    /\ pc = "await"
    /\ thrown' = Append(thrown, e)
    /\ pc' = "loop"
    /\ UNCHANGED <<limit, kwargs, offset, total, calls, pages, yielded, raised>>
    /\ UNCHANGED cvars
    /\ UNCHANGED mvars

\* line 48: the awaited call raises e; nothing in paginate catches it, so the
\* generator ends and its caller sees e
FetchRaise(e) ==
    /\ pc = "await"
    /\ thrown' = Append(thrown, e)
    /\ raised' = Some(e)
    /\ pc' = "error"
    /\ UNCHANGED <<limit, kwargs, offset, total, calls, pages, yielded>>
    /\ UNCHANGED cvars
    /\ UNCHANGED mvars

\* the batch put in front of the list instead of behind it
Consume_Prepend ==
    /\ pc = "yield"
    /\ result' = yielded[Len(yielded)] \o result
    /\ pc' = "resume"
    /\ UNCHANGED <<limit, kwargs, offset, total, calls, pages, thrown, yielded, raised>>
    /\ UNCHANGED runs
    /\ UNCHANGED mvars

\* lines 90-91, 100-101, 110-111: the body of the caller's async-for extends
\* its list with the batch just yielded, then asks the generator for the next
Consume ==
    /\ pc = "yield"
    /\ result' = result \o yielded[Len(yielded)]
    /\ pc' = "resume"
    /\ UNCHANGED <<limit, kwargs, offset, total, calls, pages, thrown, yielded, raised>>
    /\ UNCHANGED runs
    /\ UNCHANGED mvars

\* line 58: the generator resumes after the yield and advances offset
Resume ==
    /\ pc = "resume"
    /\ offset' = Advance(offset, pages[Len(pages)].items)
    /\ pc' = "loop"
    /\ UNCHANGED <<limit, kwargs, total, calls, pages, thrown, yielded, raised>>
    /\ UNCHANGED cvars
    /\ UNCHANGED mvars

\* the awaited api_func call returns some page
ApiReturns ==
    /\ pc = "await"
    /\ \E page \in Responses(calls[Len(calls)]) : FetchReturn(page)

\* the awaited api_func call raises some error
ApiRaises ==
    /\ pc = "await"
    /\ \E e \in Errors : FetchRaise(e)

-----------------------------------------------------------------------------
(* paginate used as a library function.                                    *)

ArgAbsent == "<None>"
NoArgv == [modes |-> {}, help |-> "absent", client_id |-> ArgAbsent,
           org_id |-> ArgAbsent, instance_url |-> ArgAbsent,
           workspace_id |-> ArgAbsent]

\* Every call of paginate makes a generator with a frame of its own.  The
\* variables pc, limit, kwargs, offset, total and the logs describe one of the
\* generators made so far, the one being followed; runs counts the calls.  A
\* call can be made at any time, also while an earlier generator is suspended
\* at its await or its yield.

\* a caller calls paginate(api_func, limit=l, **kw) and iterates it into a
\* fresh list; the variables describe this new generator from now on
CallPaginate ==
    /\ mainpc = "library"
    /\ runs < MaxRuns
    /\ \E l \in Limits, kw \in KwargsSet : PaginateStart(l, kw)
    /\ result' = <<>>
    /\ UNCHANGED mvars

\* a caller calls paginate while the variables go on describing the generator
\* followed so far: the new generator has its own offset and total, and the frame of the
\* earlier one is left as it is, to be resumed later
CallPaginateOther ==
    /\ mainpc = "library"
    /\ runs > 0
    /\ runs < MaxRuns
    /\ runs' = runs + 1
    /\ UNCHANGED result
    /\ UNCHANGED pvars
    /\ UNCHANGED mvars

PInit ==
    /\ pc = "idle"
    /\ limit = DefaultLimit
    /\ kwargs = NoKwargs
    /\ offset = 0
    /\ total = None
    /\ calls = <<>>
    /\ pages = <<>>
    /\ thrown = <<>>
    /\ yielded = <<>>
    /\ raised = None
    /\ result = <<>>
    /\ runs = 0
    /\ argv = NoArgv
    /\ mainpc = "library"
    /\ stage = 1
    /\ logins = 0
    /\ connector = "none"
    /\ printed = <<>>
    /\ exitCode = None

PStep == LoopTest \/ ApiReturns \/ ApiRaises \/ Consume \/ Resume

PNext == CallPaginate \/ CallPaginateOther \/ PStep

SpecPaginate == PInit /\ [][PNext]_vars

\* the caller keeps iterating and every api_func call completes
FairPaginate == SpecPaginate /\ WF_vars(PStep)

-----------------------------------------------------------------------------
(* main, lines 136-186, and the listing handlers, lines 79-113.            *)

\* the four store_true flags of the mutually exclusive group, in the order
\* main tests them (lines 164, 169, 174, 180)
Modes == <<"instances", "workspaces", "files", "objects">>
ModeSet == {Modes[i] : i \in DOMAIN Modes}
PagedModes == {"workspaces", "files", "objects"}

\* an option's value: not given (None), given empty, given non-empty
ArgVals == {ArgAbsent, "", "x"}

\* Python's `not value` for an option: None and "" are both falsy
Falsy(v) == v = ArgAbsent \/ v = ""

\* -h/--help, which ArgumentParser (line 137) adds by itself: not given, given
\* before every other argument, or given after them all
HelpVals == {"absent", "first", "last"}

\* lines 137-152: parse_args() reads the arguments in order.  -h prints the
\* help and exits at once; a second flag of the mutually exclusive group is an
\* error where it is read; what is required (one flag of the group,
\* --client-id) is checked at the end.
ParseResult(a) ==
    IF a.help = "first" THEN "help"
    ELSE IF Cardinality(a.modes) > 1 THEN "error"
    ELSE IF a.help = "last" THEN "help"
    ELSE IF a.modes = {} \/ a.client_id = ArgAbsent THEN "error"
    ELSE "ok"

\* the --files check without its workspace-id test
ValidateOk_FilesAnyWorkspace(a) ==
    /\ ~("workspaces" \in a.modes /\ (Falsy(a.org_id) \/ Falsy(a.instance_url)))
    /\ ~("files" \in a.modes /\ (Falsy(a.instance_url) \/ Falsy(a.org_id)))
    /\ ~("objects" \in a.modes
            /\ (Falsy(a.workspace_id) \/ Falsy(a.instance_url) \/ Falsy(a.org_id)))

\* lines 155-162: the three checks that call parser.error
ValidateOk(a) ==
    /\ ~("workspaces" \in a.modes /\ (Falsy(a.org_id) \/ Falsy(a.instance_url)))
    /\ ~("files" \in a.modes
            /\ (Falsy(a.workspace_id) \/ Falsy(a.instance_url) \/ Falsy(a.org_id)))
    /\ ~("objects" \in a.modes
            /\ (Falsy(a.workspace_id) \/ Falsy(a.instance_url) \/ Falsy(a.org_id)))

\* parser.error prints the usage message and exits with status 2
UsageError ==
    /\ mainpc' = "exited"
    /\ exitCode' = Some(2)

\* an exception nobody catches leaves asyncio.run and ends the process with
\* status 1
Uncaught ==
    /\ mainpc' = "exited"
    /\ exitCode' = Some(1)

\* the help action prints the help text and exits with status 0
HelpExit ==
    /\ mainpc' = "exited"
    /\ exitCode' = Some(0)

\* line 152
ParseArgs ==
    /\ mainpc = "unparsed"
    /\ CASE ParseResult(argv) = "ok"    -> mainpc' = "parsed" /\ exitCode' = exitCode
         [] ParseResult(argv) = "help"  -> HelpExit
         [] ParseResult(argv) = "error" -> UsageError
    /\ UNCHANGED <<argv, stage, logins, connector, printed>>
    /\ UNCHANGED pvars
    /\ UNCHANGED cvars

\* lines 155-162
ValidateArgs ==
    /\ mainpc = "parsed"
    /\ IF ValidateOk(argv) THEN mainpc' = "dispatch" /\ exitCode' = exitCode
                           ELSE UsageError
    /\ UNCHANGED <<argv, stage, logins, connector, printed>>
    /\ UNCHANGED pvars
    /\ UNCHANGED cvars

\* lines 164, 169, 174, 180: the flag of this if is not set
DispatchSkip ==
    /\ mainpc = "dispatch"
    /\ stage <= Len(Modes)
    /\ Modes[stage] \notin argv.modes
    /\ stage' = stage + 1
    /\ UNCHANGED <<argv, mainpc, logins, connector, printed, exitCode>>
    /\ UNCHANGED pvars
    /\ UNCHANGED cvars

\* lines 165, 170, 175, 181 with 60-74: the flag is set; login is attempted
DispatchLogin ==
    /\ mainpc = "dispatch"
    /\ stage <= Len(Modes)
    /\ Modes[stage] \in argv.modes
    /\ logins' = logins + 1
    /\ mainpc' = "login"
    /\ UNCHANGED <<argv, stage, connector, printed, exitCode>>
    /\ UNCHANGED pvars
    /\ UNCHANGED cvars

\* lines 74-76: authorizer.login() returns and login returns AuthData
LoginReturn ==
    /\ mainpc = "login"
    /\ mainpc' = "handler"
    /\ UNCHANGED <<argv, stage, logins, connector, printed, exitCode>>
    /\ UNCHANGED pvars
    /\ UNCHANGED cvars

\* line 74: authorizer.login() raises
LoginRaise ==
    /\ mainpc = "login"
    /\ Uncaught
    /\ UNCHANGED <<argv, stage, logins, connector, printed>>
    /\ UNCHANGED pvars
    /\ UNCHANGED cvars

\* line 80: get_organizations constructs the APIConnector and awaits its
\* __aenter__
GetOrganizationsEnter ==
    /\ mainpc = "handler"
    /\ Modes[stage] = "instances"
    /\ connector' = "constructed"
    /\ mainpc' = "orgs_enter"
    /\ UNCHANGED <<argv, stage, logins, printed, exitCode>>
    /\ UNCHANGED pvars
    /\ UNCHANGED cvars

\* lines 80-82: __aenter__ returns with the connector open; the client is
\* built and list_organizations() is awaited
ConnectorEnterReturn ==
    /\ mainpc = "orgs_enter"
    /\ connector' = "open"
    /\ mainpc' = "orgs_await"
    /\ UNCHANGED <<argv, stage, logins, printed, exitCode>>
    /\ UNCHANGED pvars
    /\ UNCHANGED cvars

\* line 80: __aenter__ raises; the connector was never opened, no list call is
\* made and the error leaves main
ConnectorEnterRaise ==
    /\ mainpc = "orgs_enter"
    /\ Uncaught
    /\ UNCHANGED <<argv, stage, logins, connector, printed>>
    /\ UNCHANGED pvars
    /\ UNCHANGED cvars

\* lines 82-83: list_organizations() returns orgs; the return statement leaves
\* the async-with block, whose __aexit__ is awaited
ListOrganizationsReturn(orgs) ==
    /\ mainpc = "orgs_await"
    /\ result' = orgs
    /\ mainpc' = "orgs_exit"
    /\ UNCHANGED <<argv, stage, logins, connector, printed, exitCode>>
    /\ UNCHANGED pvars
    /\ UNCHANGED runs

\* line 82: list_organizations() raises; the error leaves the async-with
\* block, whose __aexit__ is awaited with it
ListOrganizationsRaise ==
    /\ mainpc = "orgs_await"
    /\ mainpc' = "orgs_exit_error"
    /\ UNCHANGED <<argv, stage, logins, connector, printed, exitCode>>
    /\ UNCHANGED pvars
    /\ UNCHANGED cvars

\* lines 83, 166-167: __aexit__ returns with the connector closed;
\* get_organizations returns the list and main prints it
ConnectorExitReturn ==
    /\ mainpc = "orgs_exit"
    /\ connector' = "closed"
    /\ printed' = Append(printed, <<Modes[stage], result>>)
    /\ mainpc' = "dispatch"
    /\ stage' = stage + 1
    /\ UNCHANGED <<argv, logins, exitCode>>
    /\ UNCHANGED pvars
    /\ UNCHANGED cvars

\* line 80: __aexit__ returns with the connector closed and the error of
\* list_organizations() goes on to leave main
ConnectorExitPropagate ==
    /\ mainpc = "orgs_exit_error"
    /\ connector' = "closed"
    /\ Uncaught
    /\ UNCHANGED <<argv, stage, logins, printed>>
    /\ UNCHANGED pvars
    /\ UNCHANGED cvars

\* line 80: __aexit__ itself raises, after a return or after an error: the
\* connector is not closed, nothing is printed and the error leaves main
ConnectorExitRaise ==
    /\ mainpc \in {"orgs_exit", "orgs_exit_error"}
    /\ Uncaught
    /\ UNCHANGED <<argv, stage, logins, connector, printed>>
    /\ UNCHANGED pvars
    /\ UNCHANGED cvars

\* lines 86-90, 96-100, 106-110: the handler constructs an APIConnector (no
\* async with: the connector is never entered), builds the client, starts with
\* an empty list and begins iterating paginate(client.list_..., limit=50)
GetPagedEnter ==
    /\ mainpc = "handler"
    /\ Modes[stage] \in PagedModes
    /\ connector' = "constructed"
    /\ result' = <<>>
    /\ PaginateStart(DefaultLimit, NoKwargs)
    /\ mainpc' = "paging"
    /\ UNCHANGED <<argv, stage, logins, printed, exitCode>>

\* lines 93, 103, 113 and 172, 178, 184: the generator is exhausted; the
\* handler returns its list, which main prints
PagedReturn ==
    /\ mainpc = "paging"
    /\ pc = "done"
    /\ printed' = Append(printed, <<Modes[stage], result>>)
    /\ mainpc' = "dispatch"
    /\ stage' = stage + 1
    /\ UNCHANGED <<argv, logins, connector, exitCode>>
    /\ UNCHANGED pvars
    /\ UNCHANGED cvars

\* lines 90, 100, 110: the error paginate raised leaves the async-for, the
\* handler and main
PagedPropagate ==
    /\ mainpc = "paging"
    /\ pc = "error"
    /\ Uncaught
    /\ UNCHANGED <<argv, stage, logins, connector, printed>>
    /\ UNCHANGED pvars
    /\ UNCHANGED cvars

\* lines 186, 189: past the four ifs main returns 0, the exit status
MainReturn ==
    /\ mainpc = "dispatch"
    /\ stage = Len(Modes) + 1
    /\ mainpc' = "exited"
    /\ exitCode' = Some(0)
    /\ UNCHANGED <<argv, stage, logins, connector, printed>>
    /\ UNCHANGED pvars
    /\ UNCHANGED cvars

\* what list_organizations may return
OrgLists == SeqsUpTo(1..(MaxSkip + 1), MaxPageLen)

\* every command line: any set of mode flags, every option absent, empty or set
Init ==
    /\ argv \in [modes : SUBSET ModeSet, help : HelpVals, client_id : ArgVals,
                 org_id : ArgVals, instance_url : ArgVals, workspace_id : ArgVals]
    /\ mainpc = "unparsed"
    /\ stage = 1
    /\ logins = 0
    /\ connector = "none"
    /\ printed = <<>>
    /\ exitCode = None
    /\ pc = "idle"
    /\ limit = DefaultLimit
    /\ kwargs = NoKwargs
    /\ offset = 0
    /\ total = None
    /\ calls = <<>>
    /\ pages = <<>>
    /\ thrown = <<>>
    /\ yielded = <<>>
    /\ raised = None
    /\ result = <<>>
    /\ runs = 0

Next ==
    \/ ParseArgs
    \/ ValidateArgs
    \/ DispatchSkip
    \/ DispatchLogin
    \/ LoginReturn
    \/ LoginRaise
    \/ GetOrganizationsEnter
    \/ ConnectorEnterReturn
    \/ ConnectorEnterRaise
    \/ \E orgs \in OrgLists : ListOrganizationsReturn(orgs)
    \/ ListOrganizationsRaise
    \/ ConnectorExitReturn
    \/ ConnectorExitPropagate
    \/ ConnectorExitRaise
    \/ GetPagedEnter
    \/ LoopTest
    \/ ApiReturns
    \/ ApiRaises
    \/ Consume
    \/ Resume
    \/ PagedReturn
    \/ PagedPropagate
    \/ MainReturn

Spec == Init /\ [][Next]_vars

-----------------------------------------------------------------------------
(* Properties.                                                             *)

Running == pc \in {"loop", "await", "yield", "resume"}
Finished == pc \in {"done", "error"}

Last(q) == q[Len(q)]

\* number of items in the first n pages
RECURSIVE SumLen(_, _)
SumLen(ps, n) == IF n = 0 THEN 0 ELSE SumLen(ps, n - 1) + Len(ps[n].items)

\* the items of the pages received, in order
PageItems == [i \in DOMAIN pages |-> pages[i].items]

\* the sizes of the batches yielded
BatchSizes == [i \in DOMAIN yielded |-> Len(yielded[i])]

\* the offsets the calls carried
RequestedOffsets == [i \in DOMAIN calls |-> calls[i]["offset"]]

Ceil(a, b) == (a + b - 1) \div b

\* C1: every call paginate makes to the fetch function carries an offset equal
\* to the number of items received so far in the run, whatever keyword
\* arguments the caller fixed.
C1_OffsetIsItemsReceived ==
    \A i \in DOMAIN calls : calls[i]["offset"] = SumLen(pages, i - 1)

\* C2: paginate stops fetching exactly when a fetched page is empty or offset
\* has reached the total of the first response: total is the first response's
\* and no later one's; the generator is exhausted only under one of the two
\* conditions; a further call is made only when neither holds.
C2_StopsOnEmptyOrTotal ==
    /\ total # None => pages # <<>>
    /\ pages # <<>> => total = Some(pages[1].total)
    /\ pc = "done" =>
          /\ pages # <<>>
          /\ Last(pages).items = <<>> \/ offset >= pages[1].total
    /\ (pc = "await" /\ Len(calls) > 1) =>
          /\ Last(pages).items # <<>>
          /\ offset < pages[1].total
    /\ (pc = "loop" /\ pages # <<>>) => Last(pages).items # <<>>

\* a run stopped by the first total although a later response reported a
\* larger one
C2_Witness ==
    /\ pc = "done"
    /\ Len(pages) = 2
    /\ pages[2].total > pages[1].total
    /\ Last(pages).items # <<>>
    /\ offset >= pages[1].total

\* The fetch function serves a collection of pages[1].total items, limit at a
\* time: every page is the next slice, so all pages are full but a final
\* shorter one.
FullPagesThenShort ==
    /\ pages # <<>>
    /\ \A i \in DOMAIN pages :
          pages[i] = HonestPage(pages[1].total,
                                PageArgs(limit, SumLen(pages, i - 1), NoKwargs))

\* C3: when the fetch function returns limit items per page until a final
\* shorter page, paginate yields ceil(total/limit) batches whose concatenation
\* has length total (it is the whole collection, in order); total=120,
\* limit=50 gives batch sizes [50, 50, 20] and requested offsets [0, 50, 100].
\* The count is never one fewer than ceil(total/limit).
C3_CeilBatches ==
    (pc = "done" /\ FullPagesThenShort) =>
        /\ Len(yielded) = Ceil(pages[1].total, limit)
        /\ Len(Flatten(yielded)) = pages[1].total
        /\ Flatten(yielded) = Range(1, pages[1].total)
        /\ result = Flatten(yielded)
        /\ (pages[1].total = 120 /\ limit = 50) =>
              /\ BatchSizes = <<50, 50, 20>>
              /\ RequestedOffsets = <<0, 50, 100>>

\* the run of the example: 120 items, 50 at a time
C3_Witness ==
    /\ pc = "done"
    /\ FullPagesThenShort
    /\ pages[1].total = 120
    /\ limit = 50
    /\ BatchSizes = <<50, 50, 20>>
    /\ RequestedOffsets = <<0, 50, 100>>

\* C4 as stated: whenever the first response reports total=0, paginate yields
\* zero batches and makes exactly one call, with offset=0.
C4_TotalZeroYieldsNothing ==
    (pages # <<>> /\ pages[1].total = 0) =>
        /\ yielded = <<>>
        /\ Len(calls) = 1
        /\ calls[1]["offset"] = 0

\* C4 amended: whenever the first response reports total=0, paginate makes
\* exactly one call, built from the paginator's offset 0 and the fixed keyword
\* arguments; it yields no batch when that page is empty and exactly that
\* page's items when it is not.
C4_TotalZeroOneCall ==
    (pages # <<>> /\ pages[1].total = 0) =>
        /\ Len(calls) = 1
        /\ calls[1] = PageArgs(limit, 0, kwargs)
        /\ Len(pages) = 1
        /\ yielded = IF pages[1].items = <<>> THEN <<>> ELSE <<pages[1].items>>
        /\ pc \in {"yield", "resume", "loop", "done"}

\* a finished run whose only page reported total=0 and carried items
C4_Witness ==
    /\ pc = "done"
    /\ pages # <<>>
    /\ pages[1].total = 0
    /\ pages[1].items # <<>>
    /\ Len(yielded) = 1
    /\ Len(calls) = 1

\* C5: if the first page has no items, paginate yields no batch and makes no
\* further call, whatever total the page reports.
C5_EmptyFirstPage ==
    (pages # <<>> /\ pages[1].items = <<>>) =>
        /\ pc = "done"
        /\ yielded = <<>>
        /\ result = <<>>
        /\ Len(calls) = 1
        /\ Len(pages) = 1

\* an empty first page that reports a positive total
C5_Witness ==
    /\ pc = "done"
    /\ pages # <<>>
    /\ pages[1].items = <<>>
    /\ pages[1].total > 0

\* C6: once a call to the fetch function has raised, the caller of paginate
\* sees that very error, no further call was made (the failing call is the
\* last and the only one that raised), no batch was yielded after it, and
\* every page fetched before it was yielded and has reached the caller.
C6_ErrorPropagates ==
    thrown # <<>> =>
        /\ pc = "error"
        /\ Len(thrown) = 1
        /\ raised = Some(thrown[1])
        /\ Len(calls) = Len(pages) + 1
        /\ yielded = PageItems
        /\ result = Flatten(PageItems)

\* an error on a later call, after a batch was yielded
C6_Witness ==
    /\ pc = "error"
    /\ thrown # <<>>
    /\ Len(yielded) >= 1
    /\ result # <<>>

\* the options each mode requires, as the usage table lists them
Required(m) ==
    CASE m = "instances"  -> {"client_id"}
      [] m = "workspaces" -> {"client_id", "org_id", "instance_url"}
      [] m = "files"      -> {"client_id", "org_id", "instance_url", "workspace_id"}
      [] m = "objects"    -> {"client_id", "org_id", "instance_url", "workspace_id"}

\* exactly one mode is selected and every option it requires is present
WellFormed(a) ==
    /\ Cardinality(a.modes) = 1
    /\ \A m \in a.modes : \A o \in Required(m) : a[o] # ArgAbsent

\* C7, as stated: login, and with it any network activity, is attempted only
\* when exactly one mode is selected and every option of its required set is
\* present; on every other command line the run, once past validation, has
\* ended in a usage error with a non-zero status, no login attempted, no
\* connector made and no API call issued.
C7_LoginOnlyWhenWellFormed ==
    /\ (logins > 0 \/ connector # "none" \/ calls # <<>>) => WellFormed(argv)
    /\ (~WellFormed(argv) /\ mainpc \notin {"unparsed", "parsed"}) =>
          /\ mainpc = "exited"
          /\ exitCode # None
          /\ Get(exitCode) = 2
          /\ logins = 0
          /\ connector = "none"
          /\ calls = <<>>
    /\ (exitCode # None /\ Get(exitCode) = 2) => logins = 0

\* C7, amended: login, and with it any network activity, is attempted only
\* when exactly one mode is selected, every option of its required set is
\* present and -h/--help is not given; on every other command line the run,
\* once past validation, has ended with no login attempted, no connector made
\* and no API call issued: in a usage error with status 2, or, only when
\* -h/--help is given, with status 0.
C7_LoginOnlyWhenWellFormedNoHelp ==
    /\ (logins > 0 \/ connector # "none" \/ calls # <<>>) =>
          (WellFormed(argv) /\ argv.help = "absent")
    /\ ((~WellFormed(argv) \/ argv.help # "absent")
            /\ mainpc \notin {"unparsed", "parsed"}) =>
          /\ mainpc = "exited"
          /\ exitCode # None
          /\ Get(exitCode) \in {0, 2}
          /\ Get(exitCode) = 0 => argv.help # "absent"
          /\ Get(exitCode) = 2 => (~WellFormed(argv) \/ argv.help = "last")
          /\ logins = 0
          /\ connector = "none"
          /\ calls = <<>>
          /\ printed = <<>>
    /\ (exitCode # None /\ Get(exitCode) = 2) => logins = 0

\* --help given with no mode and no --client-id: the run ended with status 0
\* and no login
C7_Witness ==
    /\ argv.help = "first"
    /\ argv.modes = {}
    /\ argv.client_id = ArgAbsent
    /\ mainpc = "exited"
    /\ exitCode = Some(0)
    /\ logins = 0

\* an API call of a listing operation is awaited
ApiCallInFlight ==
    \/ mainpc = "orgs_await"
    \/ mainpc = "paging" /\ pc = "await"

\* a listing operation was entered and has been left, by return or by error
ListingLeft ==
    /\ connector # "none"
    /\ mainpc \in {"dispatch", "exited"}

\* C8: in each of the four listing operations the connector is acquired before
\* the first API call, held while the operation runs, and released on every
\* way out of it; the connector is left unreleased only where its own
\* __aenter__ or __aexit__ raised, which is in get_organizations and ends the
\* process with status 1.
C8_ConnectorScoped ==
    /\ ApiCallInFlight => connector = "open"
    /\ (ListingLeft /\ connector # "closed") =>
          (argv.modes = {"instances"} /\ exitCode = Some(1))

\* a call of paginate starts a generator at offset 0 with no total, no call
\* made and no batch yielded
Fresh ==
    /\ pc = "loop"
    /\ offset = 0
    /\ total = None
    /\ calls = <<>>
    /\ pages = <<>>
    /\ yielded = <<>>

\* C9: a generator made by paginate ends after finitely many fetch calls,
\* whatever the fetch function returns: while the caller keeps iterating and
\* every call completes, a generator that is running is followed by one that
\* has finished, itself unless the caller left it for a newer one; with a
\* total of t captured it makes at most max(1, t) calls; its first call is made
\* at offset 0 with no total; and every call of paginate, in whatever state
\* the earlier generators are, either starts the generator followed from then
\* on afresh or, when another generator is followed, leaves that one's offset,
\* total, calls and batches as they were.
C9_FiniteAndFresh ==
    /\ Running ~> Finished
    /\ [](total # None => Len(calls) <= Max(1, Get(total)))
    /\ []((Len(calls) = 1 /\ pc = "await") => (offset = 0 /\ total = None))
    /\ [][runs' # runs => (Fresh' \/ UNCHANGED pvars)]_vars

\* paginate was called twice, and the generator followed has finished after
\* as many calls as its total allows, each page non-empty
C9_Witness ==
    /\ runs = 2
    /\ pc = "done"
    /\ total = Some(MaxTotal)
    /\ Len(calls) = MaxTotal
    /\ Last(pages).items # <<>>

\* C10: in the workspaces, files and objects handlers the list is the
\* concatenation, in the order received, of the batches paginate yielded, which
\* are the pages received: nothing dropped, duplicated, filtered or reordered;
\* at most one fetch is outstanding and every earlier one has completed; the
\* list returned and printed is that of all pages.
C10_ListIsConcatenation ==
    mainpc \in {"paging", "dispatch", "exited"} /\ runs > 0 =>
        /\ Len(calls) = Len(pages) + Len(thrown) + (IF pc = "await" THEN 1 ELSE 0)
        /\ Flatten(yielded) = Flatten(PageItems)
        /\ result = IF pc = "yield"
                    THEN Flatten(SubSeq(yielded, 1, Len(yielded) - 1))
                    ELSE Flatten(PageItems)
        /\ printed # <<>> =>
              /\ pc = "done"
              /\ \E m \in argv.modes \cap PagedModes :
                    printed = <<<<m, Flatten(PageItems)>>>>

\* --files printed a list made of two pages, the second repeating an item of
\* the first and arriving out of order
C10_Witness ==
    /\ argv.modes = {"files"}
    /\ exitCode = Some(0)
    /\ Len(pages) = 2
    /\ pages[1].items = <<2, 3>>
    /\ pages[2].items = <<1, 2>>
    /\ printed = <<<<"files", <<2, 3, 1, 2>>>>>>

====
